---------------------------- MODULE Spec2Model ----------------------------
(***************************************************************************)
(* Model of src/spotify_api/spotify_api.py: the crawl of a paginated       *)
(* search API into two SQLite tables (podcasts, query_progress) by a pool  *)
(* of worker threads.                                                      *)
(*                                                                         *)
(* Encoding of Python values.  A scalar that may be None is a string and   *)
(* None is the string None below.  A list or dict that may be None is      *)
(* wrapped: NoneL is None and Some(x) is the value x, so that [] and None  *)
(* stay different.  A str built by "".join / ", ".join is the sequence of  *)
(* the pieces joined.                                                      *)
(***************************************************************************)
EXTENDS Integers, Sequences, FiniteSets, Bags, TLC

(***************************************************************************)
(* Bounds of the model.                                                    *)
(***************************************************************************)
\* letters of the alphabet given to itertools.product (the code has 26)
AlphabetSize == 2
\* main crawls the first MaxQueries of the generated queries (the code: all)
MaxQueries == 2
\* largest number of consecutive failures of the remote call in one fetch
MaxConsecFails == 6
\* storage failures (sqlite3 errors) the environment may inject in one run
MaxStoreFaults == 1
\* direct calls of the DatabaseManager methods in the store specification
MaxOps == 4
\* the enumeration on its own takes its alphabet from the first GenLetters
\* letters
GenLetters == 4
\* queries dispatched beyond the number of worker threads in the pool
\* specification
PoolExtra == 1
\* runs of main on one database file in the restart specification
MaxRuns == 2

(***************************************************************************)
(* Constants of the program.                                               *)
(***************************************************************************)
max_tries == 5
limit == 50
MaxOffset == 1000
max_workers == 5
repeat == 3

None == "None"
NoneL == <<>>
Some(x) == <<x>>
IsNoneL(o) == o = <<>>
Val(o) == o[1]

Letters ==
  << "a", "b", "c", "d", "e", "f", "g", "h", "i", "j", "k", "l", "m",
     "n", "o", "p", "q", "r", "s", "t", "u", "v", "w", "x", "y", "z" >>

Alphabet == SubSeq(Letters, 1, AlphabetSize)

Min(a, b) == IF a < b THEN a ELSE b
Max(a, b) == IF a < b THEN b ELSE a

(***************************************************************************)
(* generate_prefixes: itertools.product(alphabet, repeat = r), each tuple  *)
(* joined by "".  The last position varies fastest.                        *)
(***************************************************************************)
\* mutant of product: the first position varies fastest
RECURSIVE product_first_fastest(_, _)
product_first_fastest(alpha, r) ==
  IF r = 0 THEN << <<>> >>
  ELSE LET prev == product_first_fastest(alpha, r - 1)
           n == Len(alpha)
       IN  [k \in 1..(Len(prev) * n) |->
              << alpha[((k - 1) % n) + 1] >> \o prev[((k - 1) \div n) + 1]]

RECURSIVE product(_, _)
product(alpha, r) ==
  IF r = 0 THEN << <<>> >>
  ELSE LET prev == product(alpha, r - 1)
           n == Len(alpha)
       IN  [k \in 1..(Len(prev) * n) |->
              Append(prev[((k - 1) \div n) + 1], alpha[((k - 1) % n) + 1])]

generate_prefixes == product(Alphabet, repeat)

(***************************************************************************)
(* fetch_data under @backoff.on_exception(expo, Exception, max_tries = 5): *)
(* the remote call is tried again after every exception until it returns   *)
(* or max_tries calls have been made, and then the exception is raised.    *)
(* fails is the number of consecutive failures the remote call has in      *)
(* store; tries the calls already made.                                    *)
(***************************************************************************)
\* mutant of retry: one call too many before giving up
RECURSIVE retry_one_more(_, _)
retry_one_more(fails, tries) ==
  IF fails = 0 THEN [ok |-> TRUE, calls |-> tries + 1]
  ELSE IF tries + 1 > max_tries THEN [ok |-> FALSE, calls |-> tries + 1]
  ELSE retry_one_more(fails - 1, tries + 1)

RECURSIVE retry(_, _)
retry(fails, tries) ==
  IF fails = 0 THEN [ok |-> TRUE, calls |-> tries + 1]
  ELSE IF tries + 1 >= max_tries THEN [ok |-> FALSE, calls |-> tries + 1]
  ELSE retry(fails - 1, tries + 1)

fetch_data(fails) == retry(fails, 0)

(***************************************************************************)
(* The shows the remote API may return.  name stands for the scalar fields *)
(* copied through unchanged (name, description, publisher, ...).           *)
(***************************************************************************)
Image1 == [url |-> "u1"]
Urls1 == [spotify |-> "e1"]
Markets2 == << "US", "GB" >>

GoodShow(id, name) ==
  [id |-> id, name |-> name, available_markets |-> Some(Markets2),
   images |-> Some(<< Image1 >>), external_urls |-> Some(Urls1)]

ShowIds == {"s1", "s2", "s3", "s4"}
ShowNames == {"n1", "n2"}

\* shows with every field present, with an id, an empty id or no id
FullShows == {GoodShow(id, n) : id \in ShowIds \cup {"", None}, n \in ShowNames}

\* shows with one of the optional fields absent or empty
SparseShows ==
  { [GoodShow("s1", "n1") EXCEPT !.images = NoneL],
    [GoodShow("s1", "n1") EXCEPT !.images = Some(<<>>)],
    [GoodShow("s1", "n1") EXCEPT !.external_urls = NoneL],
    [GoodShow("s1", "n1") EXCEPT !.available_markets = NoneL],
    [GoodShow("s1", "n1") EXCEPT !.available_markets = Some(<<>>)],
    [GoodShow("s1", "n1") EXCEPT !.name = None] }

Shows == FullShows \cup SparseShows

(***************************************************************************)
(* process_query lines 173-187: the dict handed to save_podcast.           *)
(***************************************************************************)
podcast_data(show) ==
  [id |-> show.id, name |-> show.name,
   available_markets |-> show.available_markets,
   images |-> show.images, external_urls |-> show.external_urls,
   market |-> "US"]

(***************************************************************************)
(* save_podcast lines 94-109: the tuple of values bound to the INSERT.     *)
(* Building it raises when images is None or [] (subscript [0]) or when    *)
(* external_urls is None (.get on None).                                   *)
(***************************************************************************)
RECURSIVE join(_, _)
join(sep, strs) ==
  IF Len(strs) = 0 THEN <<>>
  ELSE IF Len(strs) = 1 THEN << strs[1] >>
  ELSE << strs[1], sep >> \o join(sep, Tail(strs))

RowRaises(pd) ==
  IF IsNoneL(pd.images) THEN TRUE
  ELSE IF Val(pd.images) = <<>> THEN TRUE
  ELSE IsNoneL(pd.external_urls)

joined_markets(pd) ==
  IF IsNoneL(pd.available_markets) THEN NoneL
  ELSE IF Val(pd.available_markets) = <<>> THEN NoneL
  ELSE Some(join(", ", Val(pd.available_markets)))

Row(pd) ==
  [id |-> pd.id, name |-> pd.name,
   available_markets |-> joined_markets(pd),
   image_url |-> Val(pd.images)[1].url,
   external_url |-> Val(pd.external_urls).spotify,
   recorded_countries |-> joined_markets(pd),
   market |-> pd.market]

(***************************************************************************)
(* INSERT OR REPLACE INTO podcasts: id is TEXT PRIMARY KEY of an ordinary  *)
(* rowid table, so a NULL id is allowed and never conflicts with another   *)
(* row; a non-NULL id replaces the row that has it.  The table is a bag    *)
(* of rows.                                                                *)
(***************************************************************************)
Conflicts(old, new) == new.id # None /\ old.id = new.id

\* mutant of InsertOrReplace: a plain INSERT into a table without the key
InsertOnly(table, row) == table (+) SetToBag({row})

InsertOrReplace(table, row) ==
  LET kept == {r \in DOMAIN table : ~Conflicts(r, row)}
  IN  [r \in kept |-> table[r]] (+) SetToBag({row})

(***************************************************************************)
(* query_progress: query TEXT PRIMARY KEY, completed BOOLEAN; a function   *)
(* from the queries that have a row to the flag.                           *)
(***************************************************************************)
is_query_completed(progress, query) ==
  query \in DOMAIN progress /\ progress[query]

\* mutant of init_db: the table is created anew
init_db_recreate(progress) == [q \in {} |-> TRUE]

\* init_db, lines 76-81: CREATE TABLE IF NOT EXISTS query_progress leaves
\* a table that exists as it is; a table that is missing is created with
\* no rows
init_db(progress) == progress

\* mutant of mark_query_completed: the row is never committed
mark_not_committed(progress, query) == progress

mark_query_completed(progress, query) ==
  [q \in DOMAIN progress \cup {query} |->
     IF q = query THEN TRUE ELSE progress[q]]


(***************************************************************************)
(* State.                                                                  *)
(*   podcasts, query_progress   the two tables of the database file        *)
(*   pcMain, queries, work_queue, future, nextResult, results,             *)
(*   total_scraped              main and its ThreadPoolExecutor            *)
(*   pc, offset, shows, total_podcasts                                     *)
(*                              the locals of process_query(queries[i])    *)
(* History variables, read by the properties only:                         *)
(*   fetched[i]      the offsets fetch_data was called with, in order      *)
(*   lastFetch[i]    the remote's failures and the calls of the last fetch *)
(*   marked[i]       completion rows written by the invocation             *)
(*   faults          storage failures injected so far                      *)
(*   startProgress   query_progress when the run started                   *)
(*   latest          the row of the last completed save per non-NULL id    *)
(*   nullSaves       completed saves of a row whose id is NULL             *)
(*   overwritten     ids whose row was replaced by a row of other values   *)
(*   invoked[i]      calls of process_query made for slot i                *)
(*   ops             direct calls made in the store specification          *)
(*   saves[i]        calls of save_podcast the invocation completed        *)
(*   served[i]       shows in the pages the invocation was given           *)
(*   retval[i]       the value process_query returned (line 201)           *)
(*   calls[i]        calls of spotify_client.search made for the           *)
(*                   invocation (counted in SpecCalls only)                *)
(*   runs            runs of main started on the database file             *)
(*   genAlphabet, genRepeat, prefixes                                      *)
(*                   the enumeration on its own: its alphabet, its         *)
(*                   length and the list it produced                       *)
(*   mode            which specification is running                        *)
(***************************************************************************)
VARIABLES mode, podcasts, query_progress, pcMain, queries, work_queue,
          future, nextResult, results, total_scraped, pc, offset, shows,
          total_podcasts, fetched, lastFetch, marked, invoked, faults,
          startProgress, latest, nullSaves, overwritten, ops, saves, served,
          retval, calls, runs, genAlphabet, genRepeat, prefixes

dbVars == << podcasts, query_progress, latest, nullSaves, overwritten >>
mainVars == << pcMain, queries, work_queue, nextResult, results,
               total_scraped, startProgress >>
procVars == << pc, offset, shows, total_podcasts, fetched, lastFetch, marked,
               invoked >>
histVars == << saves, served, retval, calls >>
otherVars == << runs, genAlphabet, genRepeat, prefixes >>
vars == << mode, podcasts, query_progress, pcMain, queries, work_queue,
           future, nextResult, results, total_scraped, pc, offset, shows,
           total_podcasts, fetched, lastFetch, marked, invoked, faults,
           startProgress, latest, nullSaves, overwritten, ops, saves, served,
           retval, calls, runs, genAlphabet, genRepeat, prefixes >>

Slots == 1..Max(MaxQueries, max_workers + PoolExtra)

\* the queries main dispatches
CrawlQueries ==
  SubSeq(generate_prefixes, 1, Min(MaxQueries, Len(generate_prefixes)))

\* the queries of the pool specification: more than there are threads
PoolQueries ==
  SubSeq(generate_prefixes, 1,
         Min(max_workers + PoolExtra, Len(generate_prefixes)))

Range(s) == {s[k] : k \in DOMAIN s}

(***************************************************************************)
(* What the remote API may answer.  In the crawl the pages come from a     *)
(* small set and only the first page of a query may be non-empty; a fetch  *)
(* succeeds at once or fails max_tries times.  For a single process_query  *)
(* every offset may be non-empty and every failure count is tried.         *)
(***************************************************************************)
CrawlPages ==
  { <<>>,
    << GoodShow("s1", "n1"), GoodShow("s2", "n1") >>,
    << GoodShow("s3", "n1"), GoodShow("s4", "n1") >>,
    << GoodShow("s1", "n2") >>,
    << GoodShow(None, "n1"), [GoodShow("s1", "n1") EXCEPT !.images = NoneL] >> }

ProcessPages ==
  { <<>>,
    << GoodShow("s1", "n1") >>,
    << GoodShow("s1", "n2"), GoodShow("s2", "n1") >>,
    << GoodShow("s2", "n2"), [GoodShow("s1", "n1") EXCEPT !.images = NoneL] >> }

\* the pages of the specification that counts the remote calls
CallsPages == { <<>>, << GoodShow("s1", "n1") >> }

PageChoices(off) ==
  IF mode = "crawl"
  THEN (IF off < limit THEN CrawlPages ELSE { <<>> })
  ELSE IF mode = "restart"
  THEN (IF off < limit THEN CallsPages ELSE { <<>> })
  ELSE IF mode = "calls" THEN CallsPages
  ELSE IF mode = "pool" THEN { <<>> }
  ELSE ProcessPages

FailChoices ==
  IF mode \in {"crawl", "restart"} THEN {0, max_tries}
  ELSE IF mode = "pool" THEN {0}
  ELSE 0..MaxConsecFails

NoFetch == [fails |-> 0, calls |-> 0, ok |-> TRUE]

InitProc ==
  /\ pc = [i \in Slots |-> "idle"]
  /\ offset = [i \in Slots |-> 0]
  /\ shows = [i \in Slots |-> <<>>]
  /\ total_podcasts = [i \in Slots |-> 0]
  /\ fetched = [i \in Slots |-> <<>>]
  /\ lastFetch = [i \in Slots |-> NoFetch]
  /\ marked = [i \in Slots |-> 0]
  /\ invoked = [i \in Slots |-> 0]

InitHist ==
  /\ saves = [i \in Slots |-> 0]
  /\ served = [i \in Slots |-> 0]
  /\ retval = [i \in Slots |-> 0]
  /\ calls = [i \in Slots |-> 0]

InitOther ==
  /\ runs = 1
  /\ genAlphabet = <<>>
  /\ genRepeat = 0
  /\ prefixes = <<>>

InitDb ==
  /\ podcasts = EmptyBag
  /\ latest = [id \in {} |-> None]
  /\ nullSaves = 0
  /\ overwritten = {}

InitMain ==
  /\ queries = <<>>
  /\ work_queue = <<>>
  /\ future = [i \in Slots |-> "none"]
  /\ nextResult = 1
  /\ results = <<>>
  /\ total_scraped = 0
  /\ faults = 0
  /\ ops = 0

\* a run of main on a database file left by earlier runs: any set of the
\* queries may already have its completion row
Init ==
  /\ mode = "crawl"
  /\ pcMain = "start"
  /\ InitDb
  /\ \E done \in SUBSET Range(CrawlQueries) :
       query_progress = [q \in done |-> TRUE]
  /\ startProgress = query_progress
  /\ InitMain
  /\ InitProc
  /\ InitHist
  /\ InitOther

(***************************************************************************)
(* main, lines 204-226.                                                    *)
(***************************************************************************)
\* lines 205-214: DatabaseManager() runs init_db (CREATE TABLE IF NOT
\* EXISTS: the tables keep their rows), then the queries are generated
MainStart ==
  /\ pcMain = "start"
  /\ queries' = IF mode = "pool" THEN PoolQueries ELSE CrawlQueries
  /\ query_progress' = init_db(query_progress)
  /\ startProgress' = query_progress'
  /\ pcMain' = "map"
  /\ UNCHANGED << mode, podcasts, latest, nullSaves, overwritten, work_queue,
                  future, nextResult, results, total_scraped, procVars,
                  faults, ops, histVars, otherVars >>

\* line 219: executor.map submits one future per query, in order
MainMap ==
  /\ pcMain = "map"
  /\ work_queue' = [k \in 1..Len(queries) |-> k]
  /\ future' = [i \in Slots |-> IF i <= Len(queries) THEN "pending" ELSE "none"]
  /\ nextResult' = 1
  /\ pcMain' = "collect"
  /\ UNCHANGED << mode, dbVars, queries, results, total_scraped, procVars,
                  faults, startProgress, ops, histVars, otherVars >>

\* line 218: list(...) takes the next future's result, in submission order
MainResult ==
  /\ pcMain = "collect"
  /\ nextResult <= Len(queries)
  /\ future[nextResult] = "finished"
  /\ results' = Append(results, retval[nextResult])
  /\ nextResult' = nextResult + 1
  /\ UNCHANGED << mode, dbVars, pcMain, queries, work_queue, future,
                  total_scraped, procVars, faults, startProgress, ops, histVars,
                  otherVars >>

\* line 218: the next future raised: the result iterator cancels every
\* future not yet started and the exception leaves list(...)
MainException ==
  /\ pcMain = "collect"
  /\ nextResult <= Len(queries)
  /\ future[nextResult] = "exception"
  /\ future' = [i \in Slots |->
                  IF i > nextResult /\ future[i] = "pending"
                  THEN "cancelled" ELSE future[i]]
  /\ pcMain' = "raising"
  /\ UNCHANGED << mode, dbVars, queries, work_queue, nextResult, results,
                  total_scraped, procVars, faults, startProgress, ops, histVars,
                  otherVars >>

Running == {i \in Slots : future[i] = "running"}
Quiescent == work_queue = <<>> /\ Running = {}

RECURSIVE sum(_)
sum(s) == IF s = <<>> THEN 0 ELSE Head(s) + sum(Tail(s))

\* mutant of MainSum: the total is taken from the results at hand, without
\* waiting for the remaining futures
MainSumStreaming ==
  /\ pcMain = "collect"
  /\ nextResult > 1
  /\ total_scraped' = sum(results)
  /\ pcMain' = "done"
  /\ UNCHANGED << mode, dbVars, queries, work_queue, future, nextResult,
                  results, procVars, faults, startProgress, ops, histVars,
                  otherVars >>

\* lines 217-226: every result is in; the with block ends and the total
\* is computed and reported
MainSum ==
  /\ pcMain = "collect"
  /\ nextResult > Len(queries)
  /\ Quiescent
  /\ total_scraped' = sum(results)
  /\ pcMain' = "done"
  /\ UNCHANGED << mode, dbVars, queries, work_queue, future, nextResult,
                  results, procVars, faults, startProgress, ops, histVars,
                  otherVars >>

\* line 217: leaving the with block on an exception waits for the workers
\* (shutdown(wait=True)), then the exception leaves main: lines 224-226
\* are not run
MainRaise ==
  /\ pcMain = "raising"
  /\ Quiescent
  /\ pcMain' = "raised"
  /\ UNCHANGED << mode, dbVars, queries, work_queue, future, nextResult,
                  results, total_scraped, procVars, faults, startProgress, ops,
                  histVars, otherVars >>

(***************************************************************************)
(* The worker threads of ThreadPoolExecutor(max_workers = 5): a free       *)
(* thread takes the oldest work item.                                      *)
(***************************************************************************)
\* mutant of FreeWorker: a thread for every work item
ThreadPerItem == TRUE

FreeWorker == Cardinality(Running) < max_workers

\* the item's future is pending: the thread calls process_query (159-163)
WorkerRun(i) ==
  /\ work_queue # <<>> /\ i = Head(work_queue)
  /\ FreeWorker
  /\ future[i] = "pending"
  /\ work_queue' = Tail(work_queue)
  /\ future' = [future EXCEPT ![i] = "running"]
  /\ pc' = [pc EXCEPT ![i] = "loop"]
  /\ offset' = [offset EXCEPT ![i] = 0]
  /\ total_podcasts' = [total_podcasts EXCEPT ![i] = 0]
  /\ invoked' = [invoked EXCEPT ![i] = @ + 1]
  /\ UNCHANGED << mode, dbVars, pcMain, queries, nextResult, results,
                  total_scraped, shows, fetched, lastFetch, marked, faults,
                  startProgress, ops, histVars, otherVars >>

\* the item's future was cancelled: the thread drops it
WorkerSkip(i) ==
  /\ work_queue # <<>> /\ i = Head(work_queue)
  /\ FreeWorker
  /\ future[i] = "cancelled"
  /\ work_queue' = Tail(work_queue)
  /\ UNCHANGED << mode, dbVars, pcMain, queries, future, nextResult, results,
                  total_scraped, procVars, faults, startProgress, ops, histVars,
                  otherVars >>


(***************************************************************************)
(* save_podcast, lines 84-110, as the database sees it: one INSERT OR      *)
(* REPLACE in a transaction of its own.                                    *)
(***************************************************************************)
\* mutant of Saved: the call completes but the INSERT is not committed
SavedNotCommitted(row) ==
  /\ podcasts' = podcasts
  /\ latest' = IF row.id = None THEN latest
               ELSE [id \in DOMAIN latest \cup {row.id} |->
                       IF id = row.id THEN row ELSE latest[id]]
  /\ nullSaves' = IF row.id = None THEN nullSaves + 1 ELSE nullSaves
  /\ overwritten' = overwritten

Saved(row) ==
  /\ podcasts' = InsertOrReplace(podcasts, row)
  /\ latest' = IF row.id = None THEN latest
               ELSE [id \in DOMAIN latest \cup {row.id} |->
                       IF id = row.id THEN row ELSE latest[id]]
  /\ nullSaves' = IF row.id = None THEN nullSaves + 1 ELSE nullSaves
  /\ overwritten' = IF row.id \in DOMAIN latest /\ latest[row.id] # row
                    THEN overwritten \cup {row.id} ELSE overwritten

(***************************************************************************)
(* process_query, lines 158-201, for the query in slot i.                  *)
(***************************************************************************)
\* mutant of InLoop: the ceiling itself is still fetched
InLoopInclusive(off) == off <= MaxOffset

\* line 164: the loop condition
InLoop(off) == off < MaxOffset

\* mutant of Fetch: a fetch that failed is skipped and the loop goes on
\* with the next offset
FetchSkipsFailedPage(i) ==
  /\ pc[i] = "loop"
  /\ InLoop(offset[i])
  /\ \E fails \in FailChoices, page \in PageChoices(offset[i]) :
       LET r == fetch_data(fails)
       IN  /\ lastFetch' = [lastFetch EXCEPT ![i] =
                              [fails |-> fails, calls |-> r.calls, ok |-> r.ok]]
           /\ fetched' = [fetched EXCEPT ![i] = Append(@, offset[i])]
           /\ calls' = [calls EXCEPT ![i] =
                          IF mode = "calls" THEN @ + r.calls ELSE @]
           /\ IF r.ok /\ page # <<>>
              THEN /\ shows' = [shows EXCEPT ![i] = page]
                   /\ served' = [served EXCEPT ![i] = @ + Len(page)]
                   /\ pc' = [pc EXCEPT ![i] = "items"]
                   /\ UNCHANGED offset
              ELSE IF r.ok
              THEN /\ shows' = [shows EXCEPT ![i] = <<>>]
                   /\ pc' = [pc EXCEPT ![i] = "mark"]
                   /\ UNCHANGED << served, offset >>
              ELSE /\ offset' = [offset EXCEPT ![i] = @ + limit]
                   /\ UNCHANGED << shows, served, pc >>
  /\ UNCHANGED << mode, dbVars, mainVars, future, total_podcasts,
                  marked, invoked, faults, ops, saves, retval, otherVars >>

\* lines 164-170: fetch the page at offset; an empty page or an exception
\* out of fetch_data (retries exhausted) ends the loop
Fetch(i) ==
  /\ pc[i] = "loop"
  /\ InLoop(offset[i])
  /\ \E fails \in FailChoices, page \in PageChoices(offset[i]) :
       LET r == fetch_data(fails)
       IN  /\ lastFetch' = [lastFetch EXCEPT ![i] =
                              [fails |-> fails, calls |-> r.calls, ok |-> r.ok]]
           /\ fetched' = [fetched EXCEPT ![i] = Append(@, offset[i])]
           /\ calls' = [calls EXCEPT ![i] =
                          IF mode = "calls" THEN @ + r.calls ELSE @]
           /\ IF r.ok /\ page # <<>>
              THEN /\ shows' = [shows EXCEPT ![i] = page]
                   /\ served' = [served EXCEPT ![i] = @ + Len(page)]
                   /\ pc' = [pc EXCEPT ![i] = "items"]
              ELSE /\ shows' = [shows EXCEPT ![i] = <<>>]
                   /\ pc' = [pc EXCEPT ![i] = "mark"]
                   /\ UNCHANGED served
  /\ UNCHANGED << mode, dbVars, mainVars, future, offset, total_podcasts,
                  marked, invoked, faults, ops, saves, retval, otherVars >>

\* line 164: offset has reached the ceiling
LoopExit(i) ==
  /\ pc[i] = "loop"
  /\ ~InLoop(offset[i])
  /\ pc' = [pc EXCEPT ![i] = "mark"]
  /\ UNCHANGED << mode, dbVars, mainVars, future, offset, shows,
                  total_podcasts, fetched, lastFetch, marked, invoked, faults,
                  ops, histVars, otherVars >>

\* mutant of NextOffset: every other page is skipped
NextOffsetSkipping(off) == off + 2 * limit

\* mutant of NextOffset: the offset advances by half a page
NextOffsetHalf(off) == off + limit \div 2

\* the step after the last show of a page, lines 191-192
NextOffset(off) == off + limit

\* lines 172-192: save the next show of the page and count it; after the
\* last one move to the next offset
SaveShow(i) ==
  /\ pc[i] = "items"
  /\ ~RowRaises(podcast_data(Head(shows[i])))
  /\ Saved(Row(podcast_data(Head(shows[i]))))
  /\ saves' = [saves EXCEPT ![i] = @ + 1]
  /\ total_podcasts' = [total_podcasts EXCEPT ![i] = @ + 1]
  /\ shows' = [shows EXCEPT ![i] = Tail(@)]
  /\ IF Tail(shows[i]) = <<>>
     THEN /\ offset' = [offset EXCEPT ![i] = NextOffset(@)]
          /\ pc' = [pc EXCEPT ![i] = "loop"]
     ELSE UNCHANGED << offset, pc >>
  /\ UNCHANGED << mode, query_progress, mainVars, future, fetched, lastFetch,
                  marked, invoked, faults, ops, served, retval, calls,
                  otherVars >>

\* lines 188, 194-197: save_podcast raises while it builds the row of the
\* show (TypeError, IndexError, AttributeError): caught, the loop ends
SaveRaises(i) ==
  /\ pc[i] = "items"
  /\ RowRaises(podcast_data(Head(shows[i])))
  /\ pc' = [pc EXCEPT ![i] = "mark"]
  /\ UNCHANGED << mode, dbVars, mainVars, future, offset, shows,
                  total_podcasts, fetched, lastFetch, marked, invoked, faults,
                  ops, histVars, otherVars >>

\* mutant of SaveFails: the show whose INSERT failed is counted all the same
SaveFailsCounted(i) ==
  /\ pc[i] = "items"
  /\ ~RowRaises(podcast_data(Head(shows[i])))
  /\ faults < MaxStoreFaults
  /\ faults' = faults + 1
  /\ total_podcasts' = [total_podcasts EXCEPT ![i] = @ + 1]
  /\ pc' = [pc EXCEPT ![i] = "mark"]
  /\ UNCHANGED << mode, dbVars, mainVars, future, offset, shows, fetched,
                  lastFetch, marked, invoked, ops, histVars, otherVars >>

\* lines 188, 194-197: the INSERT fails (sqlite3 error): caught, the loop
\* ends
SaveFails(i) ==
  /\ pc[i] = "items"
  /\ ~RowRaises(podcast_data(Head(shows[i])))
  /\ faults < MaxStoreFaults
  /\ faults' = faults + 1
  /\ pc' = [pc EXCEPT ![i] = "mark"]
  /\ UNCHANGED << mode, dbVars, mainVars, future, offset, shows,
                  total_podcasts, fetched, lastFetch, marked, invoked, ops,
                  histVars, otherVars >>

\* mutant of Mark: the completion row is written after every page, inside
\* the loop
MarkInLoop(i) ==
  /\ pc[i] = "loop"
  /\ marked[i] = 0
  /\ offset[i] > 0
  /\ query_progress' = mark_query_completed(query_progress, queries[i])
  /\ marked' = [marked EXCEPT ![i] = 1]
  /\ UNCHANGED << mode, podcasts, latest, nullSaves, overwritten, mainVars,
                  future, pc, offset, shows, total_podcasts, fetched,
                  lastFetch, invoked, faults, ops, histVars, otherVars >>

\* lines 199-201: the completion row is written and the count returned
Mark(i) ==
  /\ pc[i] = "mark"
  /\ query_progress' = mark_query_completed(query_progress, queries[i])
  /\ marked' = [marked EXCEPT ![i] = @ + 1]
  /\ retval' = [retval EXCEPT ![i] = total_podcasts[i]]
  /\ pc' = [pc EXCEPT ![i] = "returned"]
  /\ future' = [future EXCEPT ![i] = "finished"]
  /\ UNCHANGED << mode, podcasts, latest, nullSaves, overwritten, mainVars,
                  offset, shows, total_podcasts, fetched, lastFetch, invoked,
                  faults, ops, saves, served, calls, otherVars >>

\* line 199: mark_query_completed fails (sqlite3 error); it is outside the
\* try block, so the exception leaves process_query
MarkFails(i) ==
  /\ pc[i] = "mark"
  /\ faults < MaxStoreFaults
  /\ faults' = faults + 1
  /\ pc' = [pc EXCEPT ![i] = "raised"]
  /\ future' = [future EXCEPT ![i] = "exception"]
  /\ UNCHANGED << mode, dbVars, mainVars, offset, shows, total_podcasts,
                  fetched, lastFetch, marked, invoked, ops, histVars,
                  otherVars >>

\* In the crawl only the first page of a query may be non-empty, so the
\* offset never reaches the ceiling there: LoopExit is checked in
\* SpecProcess.
Next ==
  \/ MainStart
  \/ MainMap
  \/ MainResult
  \/ MainException
  \/ MainSum
  \/ MainRaise
  \/ \E i \in Slots : WorkerRun(i)
  \/ \E i \in Slots : WorkerSkip(i)
  \/ \E i \in Slots : Fetch(i)
  \/ \E i \in Slots : SaveShow(i)
  \/ \E i \in Slots : SaveRaises(i)
  \/ \E i \in Slots : SaveFails(i)
  \/ \E i \in Slots : Mark(i)
  \/ \E i \in Slots : MarkFails(i)

Spec == Init /\ [][Next]_vars

(***************************************************************************)
(* One call process_query(q, spotify_client, db_manager) on its own, for   *)
(* any query q and any answers of the remote API at every offset.          *)
(***************************************************************************)
\* one call of process_query, on a database file on which the query may
\* already be marked
InitInvocation ==
  /\ pcMain = "none"
  /\ InitDb
  /\ \E q \in Range(CrawlQueries) :
       /\ queries = << q >>
       /\ \E done \in {{}, {q}} : query_progress = [x \in done |-> TRUE]
  /\ startProgress = query_progress
  /\ work_queue = <<>>
  /\ future = [i \in Slots |-> IF i = 1 THEN "running" ELSE "none"]
  /\ nextResult = 1
  /\ results = <<>>
  /\ total_scraped = 0
  /\ faults = 0
  /\ ops = 0
  /\ pc = [i \in Slots |-> IF i = 1 THEN "loop" ELSE "idle"]
  /\ offset = [i \in Slots |-> 0]
  /\ shows = [i \in Slots |-> <<>>]
  /\ total_podcasts = [i \in Slots |-> 0]
  /\ fetched = [i \in Slots |-> <<>>]
  /\ lastFetch = [i \in Slots |-> NoFetch]
  /\ marked = [i \in Slots |-> 0]
  /\ invoked = [i \in Slots |-> IF i = 1 THEN 1 ELSE 0]
  /\ InitHist
  /\ InitOther

InitProcess ==
  /\ mode = "process"
  /\ InitInvocation

NextProcess ==
  \/ \E i \in Slots : Fetch(i)
  \/ \E i \in Slots : LoopExit(i)
  \/ \E i \in Slots : SaveShow(i)
  \/ \E i \in Slots : SaveRaises(i)
  \/ \E i \in Slots : SaveFails(i)
  \/ \E i \in Slots : Mark(i)
  \/ \E i \in Slots : MarkFails(i)

SpecProcess == InitProcess /\ [][NextProcess]_vars

\* the thread that runs process_query is never stopped for ever
FairProcess == SpecProcess /\ WF_vars(NextProcess)

(***************************************************************************)
(* One call of process_query with the calls of spotify_client.search      *)
(* counted: every show has all its fields, so save_podcast never raises   *)
(* while it builds the row.                                                *)
(***************************************************************************)
InitCalls ==
  /\ mode = "calls"
  /\ InitInvocation

NextCalls ==
  \/ \E i \in Slots : Fetch(i)
  \/ \E i \in Slots : LoopExit(i)
  \/ \E i \in Slots : SaveShow(i)
  \/ \E i \in Slots : SaveFails(i)
  \/ \E i \in Slots : Mark(i)
  \/ \E i \in Slots : MarkFails(i)

SpecCalls == InitCalls /\ [][NextCalls]_vars

\* the thread that runs process_query is always scheduled again
FairCalls == SpecCalls /\ WF_vars(NextCalls)

(***************************************************************************)
(* The thread pool under load: main dispatches more queries than there    *)
(* are threads; every query has an empty first page, and the write of a   *)
(* completion row may fail.                                                *)
(***************************************************************************)
InitPool ==
  /\ mode = "pool"
  /\ pcMain = "start"
  /\ InitDb
  /\ query_progress = [q \in {} |-> TRUE]
  /\ startProgress = query_progress
  /\ InitMain
  /\ InitProc
  /\ InitHist
  /\ InitOther

NextPool ==
  \/ MainStart
  \/ MainMap
  \/ MainResult
  \/ MainException
  \/ MainSum
  \/ MainRaise
  \/ \E i \in Slots : WorkerRun(i)
  \/ \E i \in Slots : WorkerSkip(i)
  \/ \E i \in Slots : Fetch(i)
  \/ \E i \in Slots : Mark(i)
  \/ \E i \in Slots : MarkFails(i)

SpecPool == InitPool /\ [][NextPool]_vars

(***************************************************************************)
(* Runs of main one after the other on one database file, which is new     *)
(* when the first run starts.  The process may be stopped at any moment;   *)
(* the next run starts main again: its threads and their locals are gone,  *)
(* the tables are what was committed.                                      *)
(***************************************************************************)
InitRestart ==
  /\ mode = "restart"
  /\ pcMain = "start"
  /\ InitDb
  /\ query_progress = [q \in {} |-> TRUE]
  /\ startProgress = query_progress
  /\ InitMain
  /\ InitProc
  /\ InitHist
  /\ InitOther

MainRestart ==
  /\ pcMain # "start"
  /\ runs < MaxRuns
  /\ runs' = runs + 1
  /\ pcMain' = "start"
  /\ queries' = <<>>
  /\ work_queue' = <<>>
  /\ future' = [i \in Slots |-> "none"]
  /\ nextResult' = 1
  /\ results' = <<>>
  /\ total_scraped' = 0
  /\ pc' = [i \in Slots |-> "idle"]
  /\ offset' = [i \in Slots |-> 0]
  /\ shows' = [i \in Slots |-> <<>>]
  /\ total_podcasts' = [i \in Slots |-> 0]
  /\ fetched' = [i \in Slots |-> <<>>]
  /\ lastFetch' = [i \in Slots |-> NoFetch]
  /\ marked' = [i \in Slots |-> 0]
  /\ invoked' = [i \in Slots |-> 0]
  /\ saves' = [i \in Slots |-> 0]
  /\ served' = [i \in Slots |-> 0]
  /\ retval' = [i \in Slots |-> 0]
  /\ UNCHANGED << mode, dbVars, startProgress, faults, ops, calls,
                  genAlphabet, genRepeat, prefixes >>

NextRestart ==
  \/ MainStart
  \/ MainMap
  \/ MainResult
  \/ MainException
  \/ MainSum
  \/ MainRaise
  \/ MainRestart
  \/ \E i \in Slots : WorkerRun(i)
  \/ \E i \in Slots : WorkerSkip(i)
  \/ \E i \in Slots : Fetch(i)
  \/ \E i \in Slots : SaveShow(i)
  \/ \E i \in Slots : SaveFails(i)
  \/ \E i \in Slots : Mark(i)
  \/ \E i \in Slots : MarkFails(i)

SpecRestart == InitRestart /\ [][NextRestart]_vars

(***************************************************************************)
(* The enumeration on its own: itertools.product applied to an alphabet   *)
(* of distinct letters in increasing order, as the one of line 143, and   *)
(* to a length up to repeat.                                               *)
(***************************************************************************)
RECURSIVE SortedLetters(_)
SortedLetters(S) ==
  IF S = {} THEN <<>>
  ELSE LET k == CHOOSE x \in S : \A y \in S : x <= y
       IN  << Letters[k] >> \o SortedLetters(S \ {k})

InitGenerate ==
  /\ mode = "generate"
  /\ pcMain = "generate"
  /\ InitDb
  /\ query_progress = [q \in {} |-> TRUE]
  /\ startProgress = query_progress
  /\ InitMain
  /\ InitProc
  /\ InitHist
  /\ runs = 1
  /\ \E S \in SUBSET (1..GenLetters) : genAlphabet = SortedLetters(S)
  /\ genRepeat \in 0..repeat
  /\ prefixes = <<>>

\* line 143
Generate ==
  /\ pcMain = "generate"
  /\ prefixes' = product(genAlphabet, genRepeat)
  /\ pcMain' = "generated"
  /\ UNCHANGED << mode, dbVars, queries, work_queue, nextResult, results,
                  total_scraped, startProgress, future, procVars, faults,
                  ops, histVars, runs, genAlphabet, genRepeat >>

NextGenerate == Generate

SpecGenerate == InitGenerate /\ [][NextGenerate]_vars

(***************************************************************************)
(* The DatabaseManager on its own: any MaxOps calls of its methods.        *)
(***************************************************************************)
InitStore ==
  /\ mode = "store"
  /\ pcMain = "none"
  /\ InitDb
  /\ query_progress = [q \in {} |-> TRUE]
  /\ startProgress = query_progress
  /\ InitMain
  /\ InitProc
  /\ InitHist
  /\ InitOther

\* save_podcast(podcast_data), lines 84-110
StoreSave(show) ==
  /\ ops < MaxOps
  /\ ops' = ops + 1
  /\ IF RowRaises(podcast_data(show))
     THEN UNCHANGED << podcasts, latest, nullSaves, overwritten >>
     ELSE Saved(Row(podcast_data(show)))
  /\ UNCHANGED << mode, query_progress, mainVars, future, procVars, faults,
                  histVars, otherVars >>

\* mark_query_completed(query), lines 123-132
StoreMark(query) ==
  /\ ops < MaxOps
  /\ ops' = ops + 1
  /\ query_progress' = mark_query_completed(query_progress, query)
  /\ UNCHANGED << mode, podcasts, latest, nullSaves, overwritten, mainVars,
                  future, procVars, faults, histVars, otherVars >>

\* init_db(), lines 53-82: CREATE TABLE IF NOT EXISTS keeps the rows
StoreInit ==
  /\ ops < MaxOps
  /\ ops' = ops + 1
  /\ query_progress' = init_db(query_progress)
  /\ UNCHANGED << mode, podcasts, latest, nullSaves, overwritten, mainVars,
                  future, procVars, faults, histVars, otherVars >>

NextStore ==
  \/ \E show \in Shows : StoreSave(show)
  \/ \E query \in Range(CrawlQueries) : StoreMark(query)
  \/ StoreInit

SpecStore == InitStore /\ [][NextStore]_vars


(***************************************************************************)
(* Properties.                                                             *)
(***************************************************************************)
Dispatched == DOMAIN queries
RunOver == pcMain \in {"done", "raised"}
Ended(i) == pc[i] \in {"returned", "raised"}
Active(i) == pc[i] \in {"loop", "items", "mark"}
CompleteAtStart(i) == is_query_completed(startProgress, queries[i])

\* C1: a query whose completion row is set when the run starts is never
\* fetched in that run, and no row is saved and no completion row written
\* on its behalf.
C1_CompletedNotProcessed ==
  \A i \in Dispatched :
    CompleteAtStart(i) =>
      fetched[i] = <<>> /\ total_podcasts[i] = 0 /\ marked[i] = 0

\* C2: a failure of one query never aborts the run: when the run is over,
\* the total has been reported and every query whose own processing did not
\* fail has its completion mark.
C2_RunNeverAborts ==
  RunOver =>
    /\ pcMain = "done"
    /\ \A i \in Dispatched : pc[i] = "raised" \/ marked[i] = 1

\* C3 as stated: every invocation of process_query that has ended has
\* marked its query complete.
C3_EndedImpliesMarked ==
  \A i \in Dispatched :
    Ended(i) => marked[i] = 1 /\ is_query_completed(query_progress, queries[i])

\* C3 as amended: every invocation of process_query ends (once one is
\* running, a state follows in which none is); one that returns
\* has marked its query complete, and one that raises has done so only
\* because the write of the completion row itself failed.
C3_EndsAndMarksUnlessMarkFails ==
  /\ (\E i \in Slots : Active(i)) ~> (\A i \in Slots : ~Active(i))
  /\ [](\A i \in Dispatched :
          pc[i] = "returned" =>
            marked[i] = 1 /\ is_query_completed(query_progress, queries[i]))
  /\ [](\A i \in Dispatched :
          pc[i] = "raised" => marked[i] = 0 /\ faults > 0)

C3_Witness ==
  /\ pc[1] = "returned"
  /\ marked[1] = 1
  /\ ~CompleteAtStart(1)
  /\ is_query_completed(query_progress, queries[1])
  /\ ~lastFetch[1].ok

\* C4: within one invocation the completion row is written only once the
\* loop has ended (never from the fetching or saving steps), and after it
\* is written there is no fetch and no save.
C4_MarkOnlyAfterLoop ==
  [][\A i \in Slots :
       /\ marked[i] > 0 =>
            /\ fetched'[i] = fetched[i]
            /\ total_podcasts'[i] = total_podcasts[i]
            /\ podcasts' = podcasts
       /\ marked'[i] # marked[i] =>
            pc[i] = "mark" /\ pc'[i] \notin {"loop", "items"}]_vars

C4_Witness ==
  /\ pc[1] = "returned"
  /\ marked[1] = 1
  /\ Len(fetched[1]) >= 2
  /\ total_podcasts[1] >= 2

\* C5: a fetch whose remote call fails N times in a row and then succeeds
\* returns the page iff N < 5; the remote call is made at most 5 times,
\* and a failure reaches the caller only after 5 failed calls.
C5_RetryBound ==
  \A i \in Slots :
    LET f == lastFetch[i]
    IN  /\ f.ok <=> f.fails < 5
        /\ f.calls <= 5
        /\ f.ok => f.calls = (IF fetched[i] = <<>> THEN 0 ELSE f.fails + 1)
        /\ ~f.ok => f.calls = 5 /\ pc[i] \in {"mark", "returned", "raised"}

C5_Witness ==
  /\ lastFetch[1].fails = 4
  /\ lastFetch[1].ok
  /\ lastFetch[1].calls = 5
  /\ pc[1] = "items"

\* C6: pages are fetched only at the offsets 0, 50, ..., 950, so at most
\* 20 per query; when every page up to 950 was non-empty and saved, exactly
\* 20 fetches were made and no further one follows.
C6_PaginationCeiling ==
  \A i \in Slots :
    /\ Len(fetched[i]) <= 20
    /\ \A k \in DOMAIN fetched[i] :
         fetched[i][k] = 50 * (k - 1) /\ fetched[i][k] < 1000
    /\ offset[i] >= 1000 => offset[i] = 1000 /\ Len(fetched[i]) = 20
    /\ Len(fetched[i]) = 20 => pc[i] # "loop" \/ offset[i] = 1000

C6_Witness ==
  /\ pc[1] = "returned"
  /\ offset[1] = 1000
  /\ Len(fetched[1]) = 20
  /\ total_podcasts[1] >= 20

\* C7: when the run is over, every query that was not complete at its
\* start has been handed to process_query exactly once.
Invocations(q) ==
  sum([i \in Slots |-> IF i \in Dispatched /\ queries[i] = q
                       THEN invoked[i] ELSE 0])

C7_ExactlyOnce ==
  RunOver =>
    \A q \in Range(CrawlQueries) :
      ~is_query_completed(startProgress, q) => Invocations(q) = 1

\* C8: when all workers have finished and every row saved had an id of its
\* own, the table holds exactly one row per saved id: as many rows as were
\* saved, each one the row that was saved.
AllFinished ==
  /\ pcMain \in {"collect", "done", "raising", "raised"}
  /\ Quiescent

DistinctIds ==
  /\ nullSaves = 0
  /\ sum(total_podcasts) = Cardinality(DOMAIN latest)

C8_NoLostWrite ==
  (AllFinished /\ DistinctIds) =>
    /\ BagCardinality(podcasts) = sum(total_podcasts)
    /\ BagToSet(podcasts) = {latest[id] : id \in DOMAIN latest}
    /\ \A id \in DOMAIN latest : CopiesIn(latest[id], podcasts) = 1

C8_Witness ==
  /\ AllFinished
  /\ DistinctIds
  /\ \A i \in Dispatched : total_podcasts[i] = 2
  /\ BagCardinality(podcasts) = 2 * MaxQueries

\* C9: after any calls of save_podcast the table holds, for every id that
\* was saved, exactly one row with that id, and it is the row of the last
\* completed save of that id.
RowsWithId(id) == {r \in BagToSet(podcasts) : r.id = id}

C9_UpsertByIdentifier ==
  /\ \A id \in DOMAIN latest :
       RowsWithId(id) = {latest[id]} /\ CopiesIn(latest[id], podcasts) = 1
  /\ \A r \in BagToSet(podcasts) : r.id # None => r.id \in DOMAIN latest

C9_Witness ==
  \E id \in overwritten :
    /\ RowsWithId(id) = {latest[id]}
    /\ latest[id].name = "n2"
    /\ BagCardinality(podcasts) >= 2

\* C10: after any number of saves of shows without an id the table holds
\* at most one row without an id.
C10_OneEmptyIdRow ==
  /\ nullSaves > 0 => RowsWithId(None) # {}
  /\ \A r \in RowsWithId(None) : CopiesIn(r, podcasts) <= 1
  /\ Cardinality(RowsWithId(None)) <= 1

\* C11: whichever of its non-identifier fields are absent or empty, every
\* show of a fetched page is written and counted: unless the store itself
\* fails, an invocation that has left its loop after a successful fetch has
\* completed one save for every show it was served.
LeftLoop(i) == pc[i] \in {"mark", "returned", "raised"}

C11_SparseItemStored ==
  \A i \in Slots :
    (LeftLoop(i) /\ lastFetch[i].ok /\ faults = 0) => saves[i] = served[i]

\* C12: a storage failure while a record is persisted or the completion row
\* is written is propagated out of process_query: an invocation in which a
\* save failed in the store ends by raising, never by returning a count,
\* and it writes no completion row.
StoreFailedSaving(i) ==
  /\ LeftLoop(i)
  /\ shows[i] # <<>>
  /\ ~RowRaises(podcast_data(Head(shows[i])))

C12_StorageFailurePropagates ==
  \A i \in Slots :
    (Ended(i) /\ StoreFailedSaving(i)) => (pc[i] = "raised" /\ marked[i] = 0)

\* C13 as stated: an invocation whose last fetch failed for good ends by
\* returning, with the query marked complete and the count of the records
\* written so far as its result.
C13_FetchErrorMarksAndReturns ==
  \A i \in Slots :
    (Ended(i) /\ ~lastFetch[i].ok) =>
      /\ pc[i] = "returned"
      /\ is_query_completed(query_progress, queries[i])
      /\ retval[i] = saves[i]

\* C13: once a fetch of an invocation has failed for good the invocation
\* has left its loop, and no later step fetches again, saves a show or
\* changes the podcasts table; if it returns, it has written the completion
\* row and returns the number of saves it completed; it ends without
\* returning only when the write of the completion row itself failed.
FetchFailed(i) == fetched[i] # <<>> /\ ~lastFetch[i].ok

C13_FetchErrorEndsQuery ==
  /\ [][\A i \in Slots :
          FetchFailed(i) =>
            /\ fetched'[i] = fetched[i]
            /\ saves'[i] = saves[i]
            /\ podcasts' = podcasts]_vars
  /\ [](\A i \in Slots : FetchFailed(i) => LeftLoop(i))
  /\ [](\A i \in Slots :
          (FetchFailed(i) /\ pc[i] = "returned") =>
            /\ marked[i] = 1
            /\ is_query_completed(query_progress, queries[i])
            /\ retval[i] = saves[i])
  /\ [](\A i \in Slots : (FetchFailed(i) /\ pc[i] = "raised") => faults > 0)

C13_Witness ==
  \E i \in Slots :
    /\ FetchFailed(i)
    /\ pc[i] = "returned"
    /\ Len(fetched[i]) >= 3
    /\ retval[i] >= 2
    /\ BagCardinality(podcasts) >= 1
    /\ ~CompleteAtStart(i)

\* C14: the value process_query returns is the number of saves the
\* invocation completed, however its loop ended; it is zero when the first
\* page was empty or the first fetch failed.  Every completed save adds one
\* to the count and nothing else changes it.
C14_ReturnsSavesDone ==
  /\ [](\A i \in Slots : pc[i] = "returned" => retval[i] = saves[i])
  /\ [](\A i \in Slots :
          (pc[i] = "returned" /\ Len(fetched[i]) = 1 /\ served[i] = 0) =>
            retval[i] = 0)
  /\ [][\A i \in Slots :
          /\ total_podcasts'[i] - total_podcasts[i] = saves'[i] - saves[i]
          /\ saves'[i] # saves[i] =>
               (saves'[i] = saves[i] + 1 /\ pc[i] = "items")]_vars

\* a count that differs from the number of shows served, after a save that
\* failed in the store
C14_Witness ==
  \E i \in Slots :
    /\ pc[i] = "returned"
    /\ StoreFailedSaving(i)
    /\ retval[i] = 3
    /\ served[i] > 3

\* C15: the total a run reports is the sum of the values its process_query
\* invocations returned; it is computed when every dispatched query has
\* returned and no worker is running, and before that no total exists.  The
\* sum does not depend on the order in which the invocations ended.
RECURSIVE CountsUpTo(_)
CountsUpTo(n) == IF n = 0 THEN 0 ELSE retval[n] + CountsUpTo(n - 1)

C15_TotalIsSumOfCounts ==
  /\ pcMain = "done" =>
       /\ Quiescent
       /\ \A i \in Dispatched : pc[i] = "returned"
       /\ total_scraped = CountsUpTo(Len(queries))
  /\ pcMain # "done" => total_scraped = 0

C15_Witness ==
  /\ pcMain = "done"
  /\ Len(queries) >= 2
  /\ retval[1] = 1 /\ retval[2] = 2
  /\ total_scraped = 3

\* C18: the offsets an invocation fetches are 0, limit, 2 * limit, ... in
\* this order, and a fetch after the first one is issued only when the
\* fetch before it succeeded with a non-empty page and a save has been
\* completed for every show served so far.
C18_PagesInOffsetOrder ==
  /\ [](\A i \in Slots :
          \A k \in DOMAIN fetched[i] : fetched[i][k] = (k - 1) * limit)
  /\ [][\A i \in Slots :
          (fetched'[i] # fetched[i] /\ fetched[i] # <<>>) =>
            /\ fetched'[i] =
                 Append(fetched[i], fetched[i][Len(fetched[i])] + limit)
            /\ lastFetch[i].ok
            /\ shows[i] = <<>>
            /\ saves[i] = served[i]
            /\ served[i] >= Len(fetched[i])]_vars

C18_Witness ==
  \E i \in Slots :
    /\ Len(fetched[i]) = MaxOffset \div limit
    /\ fetched[i][Len(fetched[i])] = MaxOffset - limit
    /\ saves[i] >= Len(fetched[i]) - 1

\* C20: whatever the remote API answers, an invocation of process_query
\* ends, and by then it has fetched at most 20 pages and made at most 100
\* calls of the remote API.
C20_TerminatesWithinBudget ==
  /\ (\E i \in Slots : Active(i)) ~>
       (\A i \in Slots : Ended(i) \/ pc[i] = "idle")
  /\ [](\A i \in Slots : Len(fetched[i]) <= 20 /\ calls[i] <= 100)
  /\ [](\A i \in Slots : calls[i] <= max_tries * Len(fetched[i]))

C20_Witness ==
  \E i \in Slots :
    /\ Ended(i)
    /\ Len(fetched[i]) = 20
    /\ calls[i] = 100

\* C17: for an alphabet of A letters and a length L the enumeration yields
\* A^L queries, each of length L and made of letters of the alphabet only,
\* in strictly increasing lexicographic order, hence pairwise distinct; the
\* queries main crawls are the enumeration of the configured alphabet and
\* length.
RECURSIVE Pow(_, _)
Pow(a, l) == IF l = 0 THEN 1 ELSE a * Pow(a, l - 1)

LetterIndex(c) == CHOOSE k \in DOMAIN Letters : Letters[k] = c

\* s comes before t in lexicographic order (s and t of one length)
LexLess(s, t) ==
  \E j \in DOMAIN s :
    /\ \A h \in 1..(j - 1) : s[h] = t[h]
    /\ LetterIndex(s[j]) < LetterIndex(t[j])

C17_EnumerationComplete ==
  /\ pcMain = "generated" =>
       /\ Len(prefixes) = Pow(Len(genAlphabet), genRepeat)
       /\ \A k \in DOMAIN prefixes :
            /\ Len(prefixes[k]) = genRepeat
            /\ \A j \in DOMAIN prefixes[k] :
                 prefixes[k][j] \in Range(genAlphabet)
       /\ \A k \in 1..(Len(prefixes) - 1) :
            LexLess(prefixes[k], prefixes[k + 1])
       /\ \A j, k \in DOMAIN prefixes : j # k => prefixes[j] # prefixes[k]
  /\ Len(generate_prefixes) = Pow(Len(Alphabet), repeat)
  /\ \A k \in 1..(Len(generate_prefixes) - 1) :
       LexLess(generate_prefixes[k], generate_prefixes[k + 1])

C17_Witness ==
  /\ pcMain = "generated"
  /\ genRepeat = repeat
  /\ Len(genAlphabet) = 3
  /\ genAlphabet[1] # Letters[1]
  /\ Len(prefixes) = Pow(3, repeat)
  /\ prefixes[2] = << genAlphabet[1], genAlphabet[1], genAlphabet[2] >>

\* C16: at every moment of a run at most 5 queries are being processed; a
\* query is taken up only when fewer than 5 are being processed, and once
\* taken up it occupies its worker until its invocation of process_query
\* has ended (returned after the completion mark, or raised).
C16_BoundedParallelism ==
  /\ [](Cardinality(Running) <= 5)
  /\ [](\A i \in Slots : Active(i) <=> i \in Running)
  /\ [][\A i \in Slots :
          /\ (i \in Running /\ future'[i] # "running") =>
               (pc[i] = "mark" /\ pc'[i] \in {"returned", "raised"})
          /\ (i \notin Running /\ future'[i] = "running") =>
               (Cardinality(Running) < 5 /\ pc'[i] = "loop")]_vars

\* all 5 workers busy, one of them with a query it took after finishing
\* another
C16_Witness ==
  /\ Cardinality(Running) = 5
  /\ \E i \in Running : i > 5
  /\ \E i \in Slots : pc[i] = "returned"

\* C19: no step of the program takes a completion away: a query that is
\* complete in the ledger is complete after every step, whether the step is
\* init_db, a save, a completion mark, any step of process_query or main,
\* or the start of a new run on the same database file.
C19_LedgerMonotone ==
  [][\A q \in Range(generate_prefixes) :
       is_query_completed(query_progress, q) =>
         is_query_completed(query_progress', q)]_vars

\* a later run has gone through init_db and the completions of the run
\* before it are all there
C19_Witness ==
  /\ runs > 1
  /\ pcMain = "map"
  /\ queries # <<>>
  /\ \A q \in Range(queries) : is_query_completed(query_progress, q)

=============================================================================
